---- MODULE Spec2Model ----
(***************************************************************************)
(* Model of flextrain's variational autoencoder                            *)
(* (src/flextrain/autoencoder/vae.py, AutoencoderConvolutionalVariational) *)
(* and of the conditioned diffusion wrapper                                *)
(* (scripts/diffusion/06_mnist_noising.py, DiffusionModelUNetConditioned). *)
(*                                                                         *)
(* A tensor is a record [shape, data, device]: shape is the sequence of    *)
(* its dimensions, data its elements in row-major order.  Log-variances    *)
(* are counted in units of 2*ln(2), so that exp(0.5 * logvar) is the       *)
(* integer 2^logvar and the arithmetic of reparameterize is exact.         *)
(* A Python call ends in an outcome [status, value, calls, rng]: status is *)
(* "ok" or the name of the exception raised, calls the sequence of calls   *)
(* made to the collaborators (encoder, decoder, base network, loss         *)
(* callback), rng the state of torch's global generator afterwards.        *)
(***************************************************************************)
EXTENDS Integers, Sequences, FiniteSets, TLC

VARIABLES self, rng, op, args, ret, calls

vars == <<self, rng, op, args, ret, calls>>

\* ------------------------------------------------------------- bounds ----
MaxBatch == 2
MaxZ == 4

\* the channel counts, strides and scales the modelled networks take, and the
\* states of the random generator
Channels == {1, 2}
Strides == {1, 2}
RngStates == {0, 1, 2}

\* ------------------------------------------------------------ tensors ----
None == [none |-> TRUE]

RECURSIVE Prod(_)
Prod(s) == IF s = <<>> THEN 1 ELSE Head(s) * Prod(Tail(s))

Fill(n, v) == [i \in 1..n |-> v]

Tensor(shape, data, device) == [shape |-> shape, data |-> data, device |-> device]

Numel(t) == Len(t.data)

Raise(exc, cs, g) == [status |-> exc, value |-> None, calls |-> cs, rng |-> g]

Return(v, cs, g) == [status |-> "ok", value |-> v, calls |-> cs, rng |-> g]

\* a call made to a collaborator: positional arguments, keyword arguments
Call(fn, a) == [fn |-> fn, args |-> a, kwargs |-> <<>>]

\* Tensor.view(shape): the same elements under another shape; fails when the
\* number of elements differs.
View(t, shape) ==
    IF Prod(shape) = Numel(t)
    THEN [status |-> "ok", value |-> Tensor(shape, t.data, t.device)]
    ELSE [status |-> "RuntimeError", value |-> None]

\* flatten(n, 1): every dimension after the batch dimension becomes one.
Flatten1(t) == Tensor(<<Head(t.shape), Prod(Tail(t.shape))>>, t.data, t.device)

\* torch's generator: a standard-normal draw is a function of the generator's
\* state, and every element drawn advances the state.
EpsOf(g) == (g % 3) - 1

Randn(g, n) == [i \in 1..n |-> EpsOf((g + i - 1) % Cardinality(RngStates))]

RngAfter(g, n) == (g + n) % Cardinality(RngStates)

\* exp(0.5 * z_logvar), elementwise, z_logvar in units of 2*ln(2)
ExpHalf(lv) == 2 ^ lv

\* --------------------------------------------------- the collaborators ----
\* The encoder and the decoder are modules the caller supplies; they are
\* modelled as strided (transposed) convolutions over [N, C, L] tensors.
ApplyEncoder(enc, x) ==
    IF Len(x.shape) # 3 \/ x.shape[2] # enc.in_channels \/ x.shape[3] < enc.stride
    THEN [status |-> "RuntimeError", value |-> None]
    ELSE LET s == <<x.shape[1], enc.out_channels, x.shape[3] \div enc.stride>>
         IN  [status |-> "ok", value |-> Tensor(s, Fill(Prod(s), 0), x.device)]

ApplyDecoder(dec, z) ==
    IF Len(z.shape) # 3 \/ z.shape[2] # dec.in_channels
    THEN [status |-> "RuntimeError", value |-> None]
    ELSE LET s == <<z.shape[1], dec.out_channels, z.shape[3] * dec.scale>>
         IN  [status |-> "ok", value |-> Tensor(s, Fill(Prod(s), 0), z.device)]

\* nn.Linear(in_features, out_features): the layers are taken with zero
\* weights, so the output is the bias in every element.
Linear(in_features, out_features, bias) ==
    [in_features |-> in_features, out_features |-> out_features, bias |-> bias]

ApplyLinear(lin, n) ==
    IF n.shape[2] # lin.in_features
    THEN [status |-> "RuntimeError", value |-> None]
    ELSE LET s == <<n.shape[1], lin.out_features>>
         IN  [status |-> "ok", value |-> Tensor(s, Fill(Prod(s), lin.bias), n.device)]

\* ------------------------------ AutoencoderConvolutionalVariational ----
\* faulty variant: the batch dimension is not removed before the product is taken
EncoderOutputSizeWithBatch(encoding) == Prod(encoding.shape)

\* np.asarray(encoding.shape[1:]).prod()
EncoderOutputSize(encoding) == Prod(Tail(encoding.shape))

\* __init__; super().__init__() leaves the module in training mode.
Construct(x, cnn_dim, encoder, decoder, z_size, b_mu, b_logvar) ==
    LET encoding == ApplyEncoder(encoder, x).value
        encoder_output_size == EncoderOutputSize(encoding)
    IN  [kind |-> "vae",
         training |-> TRUE,
         decoder |-> decoder,
         encoder |-> encoder,
         z_size |-> z_size,
         encoder_output_size |-> encoder_output_size,
         cnn_dim |-> cnn_dim - 2,
         encoding_shape |-> encoding.shape,
         z_logvar |-> Linear(encoder_output_size, z_size, b_logvar),
         z_mu |-> Linear(encoder_output_size, z_size, b_mu)]

\* faulty variant: the noise is drawn whatever the mode
reparameterize_always_sample(training, z_mu, z_logvar, g) ==
    LET std == [i \in 1..Numel(z_logvar) |-> ExpHalf(z_logvar.data[i])]
        eps == Randn(g, Len(std))
        z == [i \in 1..Numel(z_mu) |-> z_mu.data[i] + eps[i] * std[i]]
    IN  Return(Tensor(z_mu.shape, z, z_mu.device), <<>>, RngAfter(g, Len(std)))

reparameterize(training, z_mu, z_logvar, g) ==
    IF training
    THEN LET std == [i \in 1..Numel(z_logvar) |-> ExpHalf(z_logvar.data[i])]
             eps == Randn(g, Len(std))
             z == [i \in 1..Numel(z_mu) |-> z_mu.data[i] + eps[i] * std[i]]
         IN  Return(Tensor(z_mu.shape, z, z_mu.device), <<>>, RngAfter(g, Len(std)))
    ELSE Return(z_mu, <<>>, g)

encode(obj, x, g) ==
    LET n == ApplyEncoder(obj.encoder, x)
        cs == <<Call("encoder", <<x>>)>>
    IN  IF n.status # "ok" THEN Raise(n.status, cs, g)
        ELSE LET encoded_shape == n.value.shape
                 flat == Flatten1(n.value)
                 mu == ApplyLinear(obj.z_mu, flat)
                 logvar == ApplyLinear(obj.z_logvar, flat)
             IN  IF mu.status # "ok" THEN Raise(mu.status, cs, g)
                 ELSE IF logvar.status # "ok" THEN Raise(logvar.status, cs, g)
                 ELSE Return(<<mu.value, logvar.value, encoded_shape>>, cs, g)

\* faulty variant: decode samples in either mode (True in place of self.training)
decode_ignores_mode(obj, mu, logvar, encoded_shape, g) ==
    LET z == reparameterize(TRUE, mu, logvar, g)
        nd_z == View(z.value, encoded_shape)
    IN  IF nd_z.status # "ok" THEN Raise(nd_z.status, <<>>, z.rng)
        ELSE LET recon == ApplyDecoder(obj.decoder, nd_z.value)
                 cs == <<Call("decoder", <<nd_z.value>>)>>
             IN  IF recon.status # "ok" THEN Raise(recon.status, cs, z.rng)
                 ELSE Return(recon.value, cs, z.rng)

decode(obj, mu, logvar, encoded_shape, g) ==
    LET z == reparameterize(obj.training, mu, logvar, g)
        nd_z == View(z.value, encoded_shape)
    IN  IF nd_z.status # "ok" THEN Raise(nd_z.status, <<>>, z.rng)
        ELSE LET recon == ApplyDecoder(obj.decoder, nd_z.value)
                 cs == <<Call("decoder", <<nd_z.value>>)>>
             IN  IF recon.status # "ok" THEN Raise(recon.status, cs, z.rng)
                 ELSE Return(recon.value, cs, z.rng)

\* `mu, logvar = self.encode(x)` unpacks the tuple encode returns into two
\* names, and `self.decode(mu, logvar)` passes two of decode's three arguments.
forward(obj, x, g) ==
    LET e == encode(obj, x, g)
    IN  IF e.status # "ok" THEN e
        ELSE IF Len(e.value) # 2 THEN Raise("ValueError", e.calls, e.rng)
        ELSE Raise("TypeError", e.calls, e.rng)

sample(obj, nb_samples, g) ==
    LET n == nb_samples * obj.z_size
        random_z == Tensor(<<nb_samples, obj.z_size>>, Randn(g, n), "cpu")
        nd_z == View(random_z, obj.encoding_shape)
    IN  IF nd_z.status # "ok" THEN Raise(nd_z.status, <<>>, RngAfter(g, n))
        ELSE LET random_samples == ApplyDecoder(obj.decoder, nd_z.value)
                 cs == <<Call("decoder", <<nd_z.value>>)>>
             IN  IF random_samples.status # "ok"
                 THEN Raise(random_samples.status, cs, RngAfter(g, n))
                 ELSE Return(random_samples.value, cs, RngAfter(g, n))

\* LossOutput(losses={...}); id tells one object from another.
LossOutput(id, losses) == [type |-> "LossOutput", id |-> id, losses |-> losses]

\* A loss term: the function that computed it, the shape of the tensor and the
\* factor applied to it, in tenths (kullback_leibler_weight = 0.2 is 2).
Term(fn, shape, weight) == [fn |-> fn, shape |-> shape, weight |-> weight]

\* flatten(t, 1).mean(dim=1): one value per sample
PerSample(shape) == <<Head(shape)>>

\* -0.5 * (1 + logvar - mu^2 - exp(logvar)), reduced per sample and weighted
KullbackLeibler(mu, kullback_leibler_weight) ==
    Term("kullback_leibler", PerSample(mu.shape), kullback_leibler_weight)

\* faulty variant: an unknown name falls through to the mean squared error
loss_function_default_mse(batch, model_output, encoding, x_input_name, recon_loss_name, kullback_leibler_weight, g) ==
    LET x == batch[x_input_name]
        mu == encoding[1]
        recon_loss ==
            IF recon_loss_name = "BCEL"
            THEN Term("binary_cross_entropy_with_logits", x.shape, 10)
            ELSE IF recon_loss_name = "BCE"
            THEN Term("binary_cross_entropy", x.shape, 10)
            ELSE IF recon_loss_name = "L1"
            THEN Term("PairwiseDistance",
                      [x.shape EXCEPT ![Len(x.shape)] = 1], 10)
            ELSE Term("mse_loss", x.shape, 10)
    IN  Return(LossOutput(0,
                   (recon_loss_name :>
                       [recon_loss EXCEPT !.shape = PerSample(recon_loss.shape)])
                   @@ ("kl" :> KullbackLeibler(mu, kullback_leibler_weight))),
               <<>>, g)

loss_function(batch, model_output, encoding, x_input_name, recon_loss_name, kullback_leibler_weight, g) ==
    LET x == batch[x_input_name]
        recon_x == model_output
        mu == encoding[1]
        recon_loss ==
            IF recon_loss_name = "BCEL"
            THEN Term("binary_cross_entropy_with_logits", x.shape, 10)
            ELSE IF recon_loss_name = "BCE"
            THEN Term("binary_cross_entropy", x.shape, 10)
            ELSE IF recon_loss_name = "MSE"
            THEN Term("mse_loss", x.shape, 10)
            ELSE IF recon_loss_name = "L1"
            THEN Term("PairwiseDistance",
                      [x.shape EXCEPT ![Len(x.shape)] = 1], 10)
            ELSE None
    IN  IF recon_loss = None THEN Raise("NotImplementedError", <<>>, g)
        ELSE Return(LossOutput(0,
                        (recon_loss_name :>
                            [recon_loss EXCEPT !.shape = PerSample(recon_loss.shape)])
                        @@ ("kl" :> KullbackLeibler(mu, kullback_leibler_weight))),
                    <<>>, g)

\* faulty variant: the terms of the callback are reduced per sample, as loss_function
\* reduces its reconstruction term
loss_function_v2_reduced(batch, model_output, encoding, recon_loss_fn, kullback_leibler_weight, g) ==
    LET recon_loss == recon_loss_fn.returns
        cs == <<Call("recon_loss_fn", <<batch, model_output>>)>>
        mu == encoding[1]
    IN  IF recon_loss.type # "LossOutput" THEN Raise("AssertionError", cs, g)
        ELSE Return([recon_loss EXCEPT !.losses =
                        [k \in DOMAIN recon_loss.losses \cup {"kl"} |->
                            IF k = "kl"
                            THEN KullbackLeibler(mu, kullback_leibler_weight)
                            ELSE [recon_loss.losses[k] EXCEPT
                                     !.shape = PerSample(recon_loss.losses[k].shape)]]],
                    cs, g)

\* recon_loss_fn is a callback; fn.returns is the object it hands back.
loss_function_v2(batch, model_output, encoding, recon_loss_fn, kullback_leibler_weight, g) ==
    LET recon_loss == recon_loss_fn.returns
        cs == <<Call("recon_loss_fn", <<batch, model_output>>)>>
        mu == encoding[1]
    IN  IF recon_loss.type # "LossOutput" THEN Raise("AssertionError", cs, g)
        ELSE Return([recon_loss EXCEPT !.losses =
                        [k \in DOMAIN recon_loss.losses \cup {"kl"} |->
                            IF k = "kl"
                            THEN KullbackLeibler(mu, kullback_leibler_weight)
                            ELSE recon_loss.losses[k]]],
                    cs, g)

\* ----------------------------------------- DiffusionModelUNetConditioned ----
ConstructConditioned(base_model, image_conditioning_name) ==
    [kind |-> "conditioned",
     base_model |-> base_model,
     image_conditioning_name |-> image_conditioning_name]

\* dict.get(key): the entry, or None when there is none
Get(kwargs, key) == IF key \in DOMAIN kwargs THEN kwargs[key] ELSE None

\* shape[2:]
Spatial(shape) == SubSeq(shape, 3, Len(shape))

\* the elements of sample n of a tensor
Block(t, n) ==
    LET size == Prod(Tail(t.shape))
    IN  SubSeq(t.data, (n - 1) * size + 1, n * size)

RECURSIVE CatData(_, _, _)
CatData(a, b, n) ==
    IF n = 0 THEN <<>> ELSE CatData(a, b, n - 1) \o Block(a, n) \o Block(b, n)

\* torch.cat([a, b], dim=1): both tensors have a dimension 1, live on the same
\* device and agree in every dimension but dimension 1.
Cat1(a, b) ==
    IF \/ Len(a.shape) < 2
       \/ Len(a.shape) # Len(b.shape)
       \/ a.device # b.device
       \/ Head(a.shape) # Head(b.shape)
       \/ Spatial(a.shape) # Spatial(b.shape)
    THEN [status |-> IF Len(a.shape) < 2 THEN "IndexError" ELSE "RuntimeError",
          value |-> None]
    ELSE [status |-> "ok",
          value |-> Tensor([a.shape EXCEPT ![2] = a.shape[2] + b.shape[2]],
                           CatData(a, b, Head(a.shape)), a.device)]

\* The wrapped denoising network: a convolutional network taking in_channels
\* channels and returning out_channels channels.
ApplyBase(base, x, t) ==
    IF x.shape[2] # base.in_channels
    THEN [status |-> "RuntimeError", value |-> None]
    ELSE LET s == [x.shape EXCEPT ![2] = base.out_channels]
         IN  [status |-> "ok", value |-> Tensor(s, Fill(Prod(s), 0), x.device)]

\* faulty variant: the spatial shapes are not compared
conditioned_forward_unchecked(obj, x, t, kwargs, g) ==
    LET image_conditioning == Get(kwargs, obj.image_conditioning_name)
    IN  IF image_conditioning = None THEN Raise("AssertionError", <<>>, g)
        ELSE LET x_cond == Cat1(x, image_conditioning)
             IN  IF x_cond.status # "ok" THEN Raise(x_cond.status, <<>>, g)
                 ELSE LET r == ApplyBase(obj.base_model, x_cond.value, t)
                          cs == <<Call("base_model", <<x_cond.value, t>>)>>
                      IN  [status |-> r.status, value |-> r.value,
                           calls |-> cs, rng |-> g]

\* faulty variant: the conditioning tensor comes first in the concatenation
conditioned_forward_swapped(obj, x, t, kwargs, g) ==
    LET image_conditioning == Get(kwargs, obj.image_conditioning_name)
    IN  IF image_conditioning = None THEN Raise("AssertionError", <<>>, g)
        ELSE IF Spatial(image_conditioning.shape) # Spatial(x.shape)
        THEN Raise("AssertionError", <<>>, g)
        ELSE LET x_cond == Cat1(image_conditioning, x)
             IN  IF x_cond.status # "ok" THEN Raise(x_cond.status, <<>>, g)
                 ELSE LET r == ApplyBase(obj.base_model, x_cond.value, t)
                          cs == <<Call("base_model", <<x_cond.value, t>>)>>
                      IN  [status |-> r.status, value |-> r.value,
                           calls |-> cs, rng |-> g]

conditioned_forward(obj, x, t, kwargs, g) ==
    LET image_conditioning == Get(kwargs, obj.image_conditioning_name)
    IN  IF image_conditioning = None THEN Raise("AssertionError", <<>>, g)
        ELSE IF Spatial(image_conditioning.shape) # Spatial(x.shape)
        THEN Raise("AssertionError", <<>>, g)
        ELSE LET x_cond == Cat1(x, image_conditioning)
             IN  IF x_cond.status # "ok" THEN Raise(x_cond.status, <<>>, g)
                 ELSE LET r == ApplyBase(obj.base_model, x_cond.value, t)
                          cs == <<Call("base_model", <<x_cond.value, t>>)>>
                      IN  [status |-> r.status, value |-> r.value,
                           calls |-> cs, rng |-> g]

\* ------------------------------------------------------------- inputs ----
Lengths == {2, 4}

Shapes3 == {<<n, c, l>> : n \in 1..MaxBatch, c \in Channels, l \in Lengths}

EncodedShapes(n) == {<<n, c, l>> : c \in Channels, l \in {1, 2}}

Encoders == [in_channels : {1}, out_channels : {2}, stride : Strides]

Images == {Tensor(s, Fill(Prod(s), 0), "cpu") : s \in Shapes3}

Latents(z_size) ==
    {Tensor(<<n, z_size>>, Fill(n * z_size, v), "cpu") : n \in 1..MaxBatch, v \in 0..1}

LossNames == {"BCEL", "BCE", "MSE", "L1", "kl", "SSIM"}

\* what a reconstruction-loss callback may hand back for the input x
Callbacks(x) ==
    {[returns |-> [type |-> "Tensor", id |-> 1, losses |-> <<>>]]}
    \cup {[returns |-> LossOutput(1, [k \in ks |-> Term(k, x.shape, 10)])] :
            ks \in SUBSET {"l1", "kl"}}

\* -------------------------------------------------------------- state ----
InitVae ==
    /\ \E n \in 1..MaxBatch, encoder \in Encoders, z_size \in 1..MaxZ :
          self = Construct(Tensor(<<n, 1, 2>>, Fill(n * 2, 0), "cpu"), 3, encoder,
                           [in_channels |-> encoder.out_channels,
                            out_channels |-> encoder.in_channels,
                            scale |-> encoder.stride],
                           z_size, 1, 0)
    /\ rng \in RngStates
    /\ op = "__init__"
    /\ args = None
    /\ ret = None
    /\ calls = <<>>

Finish(name, a, out) ==
    /\ op' = name
    /\ args' = a
    /\ ret' = [status |-> out.status, value |-> out.value]
    /\ calls' = out.calls
    /\ rng' = out.rng

\* nn.Module.train() / nn.Module.eval(), called by the training loop
Train ==
    /\ self' = [self EXCEPT !.training = TRUE]
    /\ Finish("train", None, Return(None, <<>>, rng))

Eval ==
    /\ self' = [self EXCEPT !.training = FALSE]
    /\ Finish("eval", None, Return(None, <<>>, rng))

Encode ==
    /\ \E x \in Images : Finish("encode", [x |-> x], encode(self, x, rng))
    /\ UNCHANGED self

\* decode is called with what the preceding encode returned, or with a latent
\* code of the model's latent size and an encoding shape of the same batch size.
Decode ==
    /\ \/ /\ op = "encode" /\ ret.status = "ok"
          /\ Finish("decode",
                    [mu |-> ret.value[1], logvar |-> ret.value[2],
                     encoded_shape |-> ret.value[3]],
                    decode(self, ret.value[1], ret.value[2], ret.value[3], rng))
       \/ \E mu \in Latents(self.z_size), lv \in 0..1 :
             \E encoded_shape \in EncodedShapes(Head(mu.shape)) :
             LET logvar == Tensor(mu.shape, Fill(Numel(mu), lv), "cpu")
             IN  Finish("decode",
                        [mu |-> mu, logvar |-> logvar, encoded_shape |-> encoded_shape],
                        decode(self, mu, logvar, encoded_shape, rng))
    /\ UNCHANGED self

Forward ==
    /\ \E x \in Images : Finish("forward", [x |-> x], forward(self, x, rng))
    /\ UNCHANGED self

Reparameterize ==
    /\ \E training \in BOOLEAN, z_mu \in Latents(self.z_size), lv \in 0..1 :
          LET z_logvar == Tensor(z_mu.shape, Fill(Numel(z_mu), lv), "cpu")
          IN  Finish("reparameterize",
                     [training |-> training, z_mu |-> z_mu, z_logvar |-> z_logvar],
                     reparameterize(training, z_mu, z_logvar, rng))
    /\ UNCHANGED self

Sample ==
    /\ \E nb_samples \in 1..MaxBatch :
          Finish("sample", [nb_samples |-> nb_samples], sample(self, nb_samples, rng))
    /\ UNCHANGED self

\* the loss functions are applied to a batch, the model's output for it and
\* the encoding (mu, logvar, encoded_shape) of it
LossFunction ==
    /\ \E n \in 1..MaxBatch, recon_loss_name \in LossNames, w \in {2, 10} :
          LET x == Tensor(<<n, 1, 2>>, Fill(n * 2, 0), "cpu")
              mu == Tensor(<<n, self.z_size>>, Fill(n * self.z_size, 0), "cpu")
              a == [batch |-> ("images" :> x), model_output |-> x,
                    encoding |-> <<mu, mu, self.encoding_shape>>,
                    x_input_name |-> "images",
                    recon_loss_name |-> recon_loss_name,
                    kullback_leibler_weight |-> w]
          IN  Finish("loss_function", a,
                     loss_function(a.batch, a.model_output, a.encoding, a.x_input_name,
                                   a.recon_loss_name, a.kullback_leibler_weight, rng))
    /\ UNCHANGED self

LossFunctionV2 ==
    /\ \E n \in 1..MaxBatch, w \in {2, 10} :
          LET x == Tensor(<<n, 1, 2>>, Fill(n * 2, 0), "cpu")
              mu == Tensor(<<n, self.z_size>>, Fill(n * self.z_size, 0), "cpu")
          IN  \E recon_loss_fn \in Callbacks(x) :
                 LET a == [batch |-> ("images" :> x), model_output |-> x,
                           encoding |-> <<mu, mu, self.encoding_shape>>,
                           recon_loss_fn |-> recon_loss_fn,
                           kullback_leibler_weight |-> w]
                 IN  Finish("loss_function_v2", a,
                            loss_function_v2(a.batch, a.model_output, a.encoding,
                                             a.recon_loss_fn,
                                             a.kullback_leibler_weight, rng))
    /\ UNCHANGED self

Next ==
    \/ Train \/ Eval \/ Encode \/ Decode \/ Forward \/ Reparameterize \/ Sample
    \/ LossFunction \/ LossFunctionV2

Spec == InitVae /\ [][Next]_vars

\* ------------------------------------------- the conditioned wrapper ----
KwNames == {"images", "mask"}

\* tensors [N, C] and [N, C, L]; the elements of a tensor are all `v`
CondShapes ==
    {<<n, c>> : n \in 1..MaxBatch, c \in Channels}
    \cup {<<n, c, l>> : n \in 1..MaxBatch, c \in Channels, l \in {1, 2}}

CondTensors(v, devices) ==
    {Tensor(s, Fill(Prod(s), v), d) : s \in CondShapes, d \in devices}

\* keyword arguments: the conditioning entry is absent, None or a tensor, and
\* another keyword may come with it
Kwargs(name) ==
    LET other == CHOOSE k \in KwNames : k # name
        extra == Tensor(<<1>>, <<7>>, "cpu")
    IN  {<<>>, (other :> extra)}
        \cup {(name :> c) : c \in CondTensors(2, {"cpu", "cuda"}) \cup {None}}
        \cup {(name :> c) @@ (other :> extra) : c \in CondTensors(2, {"cpu", "cuda"}) \cup {None}}

InitConditioned ==
    /\ \E in_channels \in {2, 3}, name \in KwNames :
          self = ConstructConditioned([in_channels |-> in_channels, out_channels |-> 1],
                                      name)
    /\ rng = 0
    /\ op = "__init__"
    /\ args = None
    /\ ret = None
    /\ calls = <<>>

ConditionedForward ==
    /\ \E x \in CondTensors(1, {"cpu"}), kwargs \in Kwargs(self.image_conditioning_name) :
          LET t == Tensor(<<Head(x.shape)>>, Fill(Head(x.shape), 5), x.device)
          IN  Finish("forward", [x |-> x, t |-> t, kwargs |-> kwargs],
                     conditioned_forward(self, x, t, kwargs, rng))
    /\ UNCHANGED self

NextConditioned == ConditionedForward

SpecConditioned == InitConditioned /\ [][NextConditioned]_vars

\* ------------------------------------------------------------- claims ----
\* the methods of AutoencoderConvolutionalVariational
Methods ==
    {"encode", "decode", "forward", "reparameterize", "sample",
     "loss_function", "loss_function_v2"}

\* C1: for every x the encoder accepts, forward(x) completes without error and
\* returns (reconstruction, mean, log-variance): mean and log-variance are the
\* first two values of encode(x), reconstruction is decode of what encode(x)
\* returned.
C1_ForwardReturnsTriple ==
    (op = "forward" /\ ApplyEncoder(self.encoder, args.x).status = "ok") =>
        LET e == encode(self, args.x, rng)
        IN  /\ ret.status = "ok"
            /\ Len(ret.value) = 3
            /\ ret.value[2] = e.value[1]
            /\ ret.value[3] = e.value[2]
            /\ ret.value[1].shape =
                   ApplyDecoder(self.decoder,
                                Tensor(e.value[3], e.value[1].data, "cpu")).value.shape

\* C2: sample(nb_samples) returns a batch whose leading dimension is nb_samples
\* and hands the decoder a latent tensor whose leading dimension is nb_samples,
\* whatever the batch size of the construction input.
C2_SampleLeadingDimension ==
    op = "sample" =>
        /\ ret.status = "ok"
        /\ Head(ret.value.shape) = args.nb_samples
        /\ Len(calls) = 1
        /\ Head(calls[1].args[1].shape) = args.nb_samples

\* C3: decode applied to what encode(x) returned gives a tensor of the shape of
\* x, for every latent size the model is built with.
C3_EncodeDecodeShape ==
    op = "decode" =>
        \A x \in Images :
            LET e == encode(self, x, rng)
            IN  (e.status = "ok"
                 /\ e.value = <<args.mu, args.logvar, args.encoded_shape>>)
                => (ret.status = "ok" /\ ret.value.shape = x.shape)

\* C4: the wrapper's forward fails with an assertion error, and the base
\* network is not called, when the keyword arguments hold no (non-None) entry
\* under image_conditioning_name and when that entry's spatial dimensions
\* differ from those of x.
C4_AssertionOnMissingOrMismatch ==
    op = "forward" =>
        LET ic == Get(args.kwargs, self.image_conditioning_name)
        IN  (ic = None \/ Spatial(ic.shape) # Spatial(args.x.shape))
            => (ret.status = "AssertionError" /\ ret.value = None /\ calls = <<>>)

C4_Witness ==
    /\ op = "forward"
    /\ Get(args.kwargs, self.image_conditioning_name) # None
    /\ Spatial(Get(args.kwargs, self.image_conditioning_name).shape) = <<2>>
    /\ Spatial(args.x.shape) = <<1>>
    /\ ret.status = "AssertionError"
    /\ calls = <<>>

\* the tensor torch.cat([x, c], dim=1) is expected to be: sample by sample, the
\* channels of x followed by the channels of c
IsChannelConcat(r, x, c) ==
    LET bx == Prod(Tail(x.shape))
        bc == Prod(Tail(c.shape))
    IN  /\ r.shape = [x.shape EXCEPT ![2] = x.shape[2] + c.shape[2]]
        /\ r.device = x.device
        /\ Len(r.data) = Head(x.shape) * (bx + bc)
        /\ \A i \in 1..Len(r.data) :
              LET n == (i - 1) \div (bx + bc)
                  q == (i - 1) % (bx + bc)
              IN  r.data[i] = IF q < bx THEN x.data[n * bx + q + 1]
                              ELSE c.data[n * bc + (q - bx) + 1]

\* what forward does when it succeeds: one call of the base network with the
\* concatenated tensor and t and no keyword, whose outcome is forward's outcome
ForwardsOnce(a, r, cs) ==
    LET ic == Get(a.kwargs, self.image_conditioning_name)
    IN  /\ Len(cs) = 1
        /\ cs[1].fn = "base_model"
        /\ Len(cs[1].args) = 2
        /\ IsChannelConcat(cs[1].args[1], a.x, ic)
        /\ cs[1].args[2] = a.t
        /\ cs[1].kwargs = <<>>
        /\ r = [status |-> ApplyBase(self.base_model, cs[1].args[1], a.t).status,
                value |-> ApplyBase(self.base_model, cs[1].args[1], a.t).value]

\* C5 as stated: whenever the conditioning tensor is present and its spatial
\* dimensions equal those of x, forward calls the base network exactly once
\* with cat([x, conditioning], dim=1) and t, and returns its result.
C5_ForwardsWheneverSpatialMatches ==
    op = "forward" =>
        LET ic == Get(args.kwargs, self.image_conditioning_name)
        IN  (ic # None /\ Spatial(ic.shape) = Spatial(args.x.shape))
            => ForwardsOnce(args, ret, calls)

\* C5, amended: when the conditioning tensor is present and agrees with x in
\* batch size, spatial dimensions and device (both being tensors with a batch
\* and a channel dimension), forward calls the base network exactly once with
\* cat([x, conditioning], dim=1) and t and no keyword, returns the base
\* network's outcome, and leaves the wrapper's fields and the generator as
\* they were.
C5_ForwardsWhenConcatenable ==
    [][op' = "forward" =>
        LET ic == Get(args'.kwargs, self.image_conditioning_name)
        IN  /\ self' = self
            /\ rng' = rng
            /\ (/\ ic # None
                /\ Spatial(ic.shape) = Spatial(args'.x.shape)
                /\ Head(ic.shape) = Head(args'.x.shape)
                /\ ic.device = args'.x.device)
               => ForwardsOnce(args', ret', calls')]_vars

C5_Witness ==
    /\ op = "forward"
    /\ ret.status = "ok"
    /\ Len(calls) = 1
    /\ calls[1].args[1].shape = <<2, 3, 2>>
    /\ DOMAIN args.kwargs = {"images", "mask"}
    /\ ret.value.shape = <<2, 1, 2>>

\* C6: reparameterize with training = False returns the mean unchanged,
\* whatever the log-variance, and draws nothing from the generator.
C6_EvalReparameterizeIsMean ==
    [][(op' = "reparameterize" /\ ~args'.training) =>
          /\ ret' = [status |-> "ok", value |-> args'.z_mu]
          /\ rng' = rng]_vars

C6_Witness ==
    /\ op = "reparameterize"
    /\ ~args.training
    /\ args.z_logvar.data[1] = 1
    /\ args.z_mu.data[1] = 1
    /\ ret.value = args.z_mu

C8_ProjectionInputSize ==
    /\ [](/\ self.z_mu.in_features = Prod(Tail(self.encoding_shape))
          /\ self.z_logvar.in_features = Prod(Tail(self.encoding_shape))
          /\ self.encoder_output_size = Prod(Tail(self.encoding_shape)))
    /\ [][/\ self'.encoder_output_size = self.encoder_output_size
          /\ self'.encoding_shape = self.encoding_shape
          /\ self'.z_size = self.z_size
          /\ self'.z_mu = self.z_mu
          /\ self'.z_logvar = self.z_logvar]_vars

C8_Witness ==
    /\ op = "sample"
    /\ ret.status = "ok"
    /\ self.encoding_shape = <<2, 2, 2>>
    /\ self.z_mu.in_features = 4
    /\ self.z_logvar.in_features = 4

\* C9: decode hands the decoder mean + noise * exp(0.5 * logvar) when the flag
\* is training and the mean when it is evaluation, draws from the generator in
\* training mode only, and no method of the class changes the flag.
C9_ModeSelectsBranch ==
    [][/\ op' \in Methods => self'.training = self.training
       /\ op' = "decode" =>
            LET mu == args'.mu.data
                lv == args'.logvar.data
            IN  /\ rng' = IF self.training
                          THEN (rng + Len(mu)) % Cardinality(RngStates)
                          ELSE rng
                /\ calls' # <<>> =>
                     calls'[1].args[1].data =
                        IF self.training
                        THEN [i \in 1..Len(mu) |->
                                mu[i] + EpsOf((rng + i - 1) % Cardinality(RngStates))
                                        * (2 ^ lv[i])]
                        ELSE mu]_vars

C9_Witness ==
    /\ op = "decode"
    /\ ~self.training
    /\ calls # <<>>
    /\ args.logvar.data[1] = 1
    /\ calls[1].args[1].data = args.mu.data

====
